---------------------------- MODULE Spec2Model ----------------------------
(***************************************************************************)
(* A model of espnet2/tts/feats_extract/dio.py: the Dio F0 extractor.      *)
(*                                                                         *)
(* Numbers.  The code computes on IEEE doubles; the model computes on      *)
(* exact values.  A value is a record [t, n, d, r]:                        *)
(*    t = "q"   the rational n/d (d > 0, lowest terms, r = 1)              *)
(*    t = "ln"  the real ln(n/d)/r  (n/d > 0, n/d # 1)                     *)
(*    t = "nan" numpy's nan (the log of a negative number)                 *)
(* Floating-point rounding is not modelled.                                *)
(*                                                                         *)
(* Sequences are 1-based here and 0-based in the code: the code's index i  *)
(* is i+1 below.  The trailing unit axis of the tensors (reshape(-1, 1),   *)
(* unsqueeze(-1)) carries no information and is left out.                  *)
(***************************************************************************)
EXTENDS Integers, Sequences, FiniteSets, TLC

VARIABLES
    self,            \* the attributes __init__ stores on the extractor
    pc,              \* the position of the caller: "idle" or inside forward()
    call,            \* the running (or last) call: its name and arguments
    frames,          \* forward(): each processed row's f0 as line 92 left it
    pitch,           \* forward()'s local list `pitch`
    ret              \* the outcome of the last finished call

vars == <<self, pc, call, frames, pitch, ret>>

-----------------------------------------------------------------------------
(* Bounds of the model *)

MaxHop == 2
MaxSamples == 3
MaxRaw == 2
MaxVal == 2
MaxBatch == 2
MaxTok == 2
MaxDur == 2
MaxLenFn == 4
MaxAvgLen == 3

-----------------------------------------------------------------------------
(* Exact arithmetic *)

Abs(a) == IF a < 0 THEN -a ELSE a

RECURSIVE GCD(_, _)
GCD(a, b) == IF b = 0 THEN a ELSE GCD(b, a % b)

Q(n, d) ==
    LET g == GCD(Abs(n), Abs(d))
        s == IF d < 0 THEN -1 ELSE 1
    IN  [t |-> "q", n |-> (s * n) \div g, d |-> (s * d) \div g, r |-> 1]

Zero == Q(0, 1)
NaN == [t |-> "nan", n |-> 0, d |-> 1, r |-> 1]

\* numpy's `v != 0` and torch's `v.ne(0.0)`: nan is not equal to zero
IsZero(v) == v.t = "q" /\ v.n = 0
NonZero(v) == ~IsZero(v)

RAdd(a, b) == Q(a.n * b.d + b.n * a.d, a.d * b.d)
RSub(a, b) == Q(a.n * b.d - b.n * a.d, a.d * b.d)
RScale(a, k, m) == Q(a.n * k, a.d * m)      \* a * k / m

RECURSIVE RSum(_)
RSum(s) == IF s = <<>> THEN Zero ELSE RAdd(Head(s), RSum(Tail(s)))

RECURSIVE RProd(_)
RProd(s) == IF s = <<>> THEN Q(1, 1)
            ELSE LET p == RProd(Tail(s)) IN Q(Head(s).n * p.n, Head(s).d * p.d)

RECURSIVE SumSeq(_)
SumSeq(s) == IF s = <<>> THEN 0 ELSE Head(s) + SumSeq(Tail(s))

Max(a, b) == IF a > b THEN a ELSE b
Min(a, b) == IF a < b THEN a ELSE b

Zeros(k) == [i \in 1..k |-> Zero]

\* Python's s[:k] and s[a:b], negative bounds counted from the end
PyIdx(k, len) == IF k < 0 THEN Max(0, len + k) ELSE Min(k, len)
PySlice(s, a, b) ==
    LET lo == PyIdx(a, Len(s))
        hi == PyIdx(b, Len(s))
    IN  IF hi <= lo THEN <<>> ELSE SubSeq(s, lo + 1, hi)
PySliceTo(s, k) == PySlice(s, 0, k)

\* outcomes of a call: a returned value or a raised exception
Returned(v) == [ok |-> TRUE, exc |-> "", val |-> v]
Raised(e) == [ok |-> FALSE, exc |-> e, val |-> <<>>]
NoCall == [ok |-> FALSE, exc |-> "none", val |-> <<>>]

-----------------------------------------------------------------------------
(* The libraries the extractor calls *)

\* humanfriendly.parse_size on the sample-rate strings the model constructs with
parse_size(text) ==
    CASE text = "22.05k" -> 22050
      [] text = "16k" -> 16000

\* librosa.samples_to_frames(samples, hop_length, n_fft):
\* floor((samples - n_fft // 2) // hop_length)
samples_to_frames(samples, hop_length, n_fft) ==
    (samples - (n_fft \div 2)) \div hop_length

\* scipy's interp1d(xs, ys), kind linear, evaluated at the integer k with
\* xs[1] <= k <= xs[Len(xs)] (xs strictly increasing): the two control points
\* around k and the line through them
InterpAt(xs, ys, k) ==
    LET lo == CHOOSE i \in 1..Len(xs) :
                  xs[i] <= k /\ \A j \in 1..Len(xs) : xs[j] <= k => xs[j] <= xs[i]
        hi == CHOOSE i \in 1..Len(xs) :
                  xs[i] >= k /\ \A j \in 1..Len(xs) : xs[j] >= k => xs[j] >= xs[i]
    IN  IF lo = hi THEN ys[lo]
        ELSE RAdd(ys[lo], RScale(RSub(ys[hi], ys[lo]), k - xs[lo], xs[hi] - xs[lo]))

\* np.log on one value
Log(v) ==
    CASE v.t = "q" /\ v.n > 0 /\ v.n = v.d -> Zero
      [] v.t = "q" /\ v.n > 0 /\ v.n # v.d -> [t |-> "ln", n |-> v.n, d |-> v.d, r |-> 1]
      [] OTHER -> NaN

\* torch's mean of a non-empty sequence of values: of rationals their sum over
\* their count, of logarithms ln(q_1) .. ln(q_c) the value ln(q_1 * .. * q_c)/c
Mean(s) ==
    IF \A i \in 1..Len(s) : s[i].t = "q"
    THEN RScale(RSum(s), 1, Len(s))
    ELSE IF \A i \in 1..Len(s) : s[i].t = "ln" /\ s[i].r = 1
    THEN LET p == RProd([i \in 1..Len(s) |-> Q(s[i].n, s[i].d)])
         IN  IF p.n = p.d THEN Zero
             ELSE [t |-> "ln", n |-> p.n, d |-> p.d, r |-> Len(s)]
    ELSE NaN

\* espnet's pad_list(xs, pad_value): the rows right-padded to the longest one
pad_list(xs, pad_value) ==
    LET max_len == CHOOSE m \in {Len(xs[i]) : i \in 1..Len(xs)} :
                       \A i \in 1..Len(xs) : Len(xs[i]) <= m
    IN  [i \in 1..Len(xs) |->
            [k \in 1..max_len |-> IF k <= Len(xs[i]) THEN xs[i][k] ELSE pad_value]]

-----------------------------------------------------------------------------
(* class Dio *)

F0MinDefault == 80
F0MaxDefault == 400

\* __init__: fs is an int, or a string that parse_size turns into one
__init__(fs, n_fft, hop_length, f0min, f0max, use_token_averaged_f0, use_continuous_f0, use_log_f0) ==
    LET fs_int == IF fs.str THEN parse_size(fs.text) ELSE fs.int
    IN  [fs |-> fs_int,
         n_fft |-> n_fft,
         hop_length |-> hop_length,
         frame_period |-> Q(1000 * hop_length, fs_int),
         f0min |-> f0min,
         f0max |-> f0max,
         use_token_averaged_f0 |-> use_token_averaged_f0,
         use_continuous_f0 |-> use_continuous_f0,
         use_log_f0 |-> use_log_f0]

\* output_size
output_size(obj) == Returned(1)

\* self.<name>: the attributes of the instance are those __init__ assigned (the
\* base class is an interface: it assigns none)
GetAttr(obj, name) ==
    IF name \in DOMAIN obj THEN Returned(obj[name]) ELSE Raised("AttributeError")

\* get_parameters: dict(fs=self.fs, n_fft=self.n_fft, n_shift=self.n_shift,
\* f0min=self.f0min, f0max=self.f0max), the attribute reads in this order
GetParametersReads ==
    << <<"fs", "fs">>, <<"n_fft", "n_fft">>, <<"n_shift", "n_shift">>,
       <<"f0min", "f0min">>, <<"f0max", "f0max">> >>

get_parameters(obj) ==
    LET reads == GetParametersReads
        bad == {i \in 1..Len(reads) : ~GetAttr(obj, reads[i][2]).ok}
    IN  IF bad # {}
        THEN GetAttr(obj, reads[CHOOSE i \in bad : \A j \in bad : i <= j][2])
        ELSE Returned([i \in 1..Len(reads) |->
                          <<reads[i][1], GetAttr(obj, reads[i][2]).val>>])

\* _adjust_num_frames(x, f0), x of num_samples samples
_adjust_num_frames_without_increment(obj, num_samples, f0) ==
    LET num_frames == samples_to_frames(num_samples, obj.hop_length, obj.n_fft)
    IN  IF num_frames > Len(f0) THEN f0 \o Zeros(num_frames - Len(f0))
        ELSE IF num_frames < Len(f0) THEN PySliceTo(f0, num_frames)
        ELSE f0

_adjust_num_frames(obj, num_samples, f0) ==
    LET num_frames == samples_to_frames(num_samples, obj.hop_length, obj.n_fft) + 1
    IN  IF num_frames > Len(f0) THEN f0 \o Zeros(num_frames - Len(f0))
        ELSE IF num_frames < Len(f0) THEN PySliceTo(f0, num_frames)
        ELSE f0

\* the indices of 1..n that are in S, in increasing order
SortedIdxs(S, n) == SelectSeq([i \in 1..n |-> i], LAMBDA i : i \in S)

MinOf(S) == CHOOSE i \in S : \A j \in S : i <= j
MaxOf(S) == CHOOSE i \in S : \A j \in S : i >= j

\* interp_fn(np.arange(0, f0.shape[0])) evaluated one frame late, clipped to the
\* last frame
InterpolateShifted(nonzero_idxs, f0) ==
    LET ys == [i \in 1..Len(nonzero_idxs) |-> f0[nonzero_idxs[i]]]
    IN  [k \in 1..Len(f0) |-> InterpAt(nonzero_idxs, ys, Min(k + 1, Len(f0)))]

\* the frames returned as they are, without the interpolation
InterpolateNone(nonzero_idxs, f0) == f0

\* lines 125-126: interp1d(nonzero_idxs, f0[nonzero_idxs]) over every frame index
Interpolate(nonzero_idxs, f0) ==
    LET ys == [i \in 1..Len(nonzero_idxs) |-> f0[nonzero_idxs[i]]]
    IN  [k \in 1..Len(f0) |-> InterpAt(nonzero_idxs, ys, k)]

\* lines 118-119: f0[:start_idx] = start_f0; f0[end_idx:] = end_f0
PadEdges(f0, start_idx, start_f0, end_idx, end_f0) ==
    [i \in 1..Len(f0) |->
        IF i >= end_idx THEN end_f0
        ELSE IF i < start_idx THEN start_f0
        ELSE f0[i]]

\* _convert_to_continuous_f0(f0) with a scipy whose interp1d wants at least
\* minval points (1 or 2, by its version)
_convert_to_continuous_f0(f0, minval) ==
    LET voiced == {i \in 1..Len(f0) : NonZero(f0[i])}
    IN  IF voiced = {} THEN Raised("AssertionError")
        ELSE
          LET start_f0 == f0[MinOf(voiced)]
              end_f0 == f0[MaxOf(voiced)]
              start_idx == MinOf({i \in 1..Len(f0) : f0[i] = start_f0})
              end_idx == MaxOf({i \in 1..Len(f0) : f0[i] = end_f0})
              padded == PadEdges(f0, start_idx, start_f0, end_idx, end_f0)
              nonzero_idxs ==
                  SortedIdxs({i \in 1..Len(f0) : NonZero(padded[i])}, Len(f0))
          IN  IF Len(nonzero_idxs) < minval THEN Raised("ValueError")
              ELSE IF nonzero_idxs[1] > 1 \/ nonzero_idxs[Len(nonzero_idxs)] < Len(f0)
              THEN Raised("ValueError")   \* interp1d: x_new out of range
              ELSE Returned(Interpolate(nonzero_idxs, padded))

\* lines 95-97 applied to every frame, the unvoiced ones included
LogF0All(f0) == [i \in 1..Len(f0) |-> Log(f0[i])]

\* lines 95-97: the log of the frames that are not zero
LogF0(f0) == [i \in 1..Len(f0) |-> IF NonZero(f0[i]) THEN Log(f0[i]) ELSE f0[i]]

\* _calculate_f0 from line 92 on: raw is what pyworld's dio and stonemask gave
\* for the row, num_samples the row's sample count
_calculate_f0(obj, num_samples, raw, minval) ==
    LET f0 == _adjust_num_frames(obj, num_samples, raw)
        c == IF obj.use_continuous_f0 THEN _convert_to_continuous_f0(f0, minval)
             ELSE Returned(f0)
    IN  IF ~c.ok THEN c
        ELSE Returned(IF obj.use_log_f0 THEN LogF0(c.val) ELSE c.val)

\* the mean of a run taken over all of its frames
RunAverageAll(run) == IF Len(run) # 0 THEN Mean(run) ELSE Zero

\* lines 135-137: the mean of the run's non-zero frames, 0.0 without any
RunAverage(run) ==
    LET nz == SelectSeq(run, NonZero)
    IN  IF Len(nz) # 0 THEN Mean(nz) ELSE Zero

\* _average_by_duration(x, d)
_average_by_duration(x, d) ==
    IF SumSeq(d) # Len(x) THEN Raised("AssertionError")
    ELSE
      LET d_cumsum == <<0>> \o [k \in 1..Len(d) |-> SumSeq(SubSeq(d, 1, k))]
          x_avg == [k \in 1..Len(d) |->
                       RunAverage(PySlice(x, d_cumsum[k], d_cumsum[k + 1]))]
      IN  IF Len(d) = 0 THEN Raised("RuntimeError")    \* torch.stack([])
          ELSE Returned(x_avg)

\* line 78: the valid lengths when no averaging is done
PitchLengths(obj, pitch_, input_lengths) ==
    [i \in 1..Len(pitch_) |-> Len(pitch_[i])]

\* line 76 with the lengths of the averaged rows
AveragedLengthsOfRows(averaged, durations_lengths) ==
    [i \in 1..Len(averaged) |-> Len(averaged[i])]

\* line 76: pitch_lengths = durations_lengths
AveragedLengths(averaged, durations_lengths) == durations_lengths

\* lines 74-75 with a row whose averaging fails replaced by an empty row
AverageAllFallback(obj, pitch_, durations) ==
    IF obj.use_token_averaged_f0
    THEN IF durations.none THEN Raised("TypeError")
         ELSE
           LET rows == Min(Len(pitch_), Len(durations.rows))
               avg == [i \in 1..rows |->
                          _average_by_duration(pitch_[i], durations.rows[i])]
           IN  Returned([i \in 1..rows |-> IF avg[i].ok THEN avg[i].val ELSE <<>>])
    ELSE Returned(pitch_)

\* forward, lines 74-75: the list `pitch` after the averaging, if any
AverageAll(obj, pitch_, durations) ==
    IF obj.use_token_averaged_f0
    THEN IF durations.none THEN Raised("TypeError")      \* zip(pitch, None)
         ELSE
           LET rows == Min(Len(pitch_), Len(durations.rows))
               avg == [i \in 1..rows |->
                          _average_by_duration(pitch_[i], durations.rows[i])]
               bad == {i \in 1..rows : ~avg[i].ok}
           IN  IF bad # {} THEN avg[MinOf(bad)]
               ELSE Returned([i \in 1..rows |-> avg[i].val])
    ELSE Returned(pitch_)

\* forward, lines 74-80, with `pitch` as line 73 left it
forward(obj, pitch_, input_lengths, durations, durations_lengths) ==
    LET a == AverageAll(obj, pitch_, durations)
    IN  IF ~a.ok THEN a
        ELSE Returned(
               [pitch |-> pad_list(a.val, Zero),
                pitch_lengths |->
                    IF obj.use_token_averaged_f0
                    THEN AveragedLengths(a.val, durations_lengths)
                    ELSE PitchLengths(obj, a.val, input_lengths)])

-----------------------------------------------------------------------------
(* What the callers pass, and what pyworld returns *)

SeqsUpTo(S, n) == UNION {[1..m -> S] : m \in 0..n}

FsArgs == {[str |-> FALSE, int |-> 22050, text |-> ""],
           [str |-> TRUE, int |-> 0, text |-> "22.05k"]}
HopLengths == 1..MaxHop
NFfts == {2 * MaxHop}

Configs ==
    {__init__(fs, n_fft, hop_length, F0MinDefault, F0MaxDefault, a, c, l) :
        fs \in FsArgs, n_fft \in NFfts, hop_length \in HopLengths,
        a \in BOOLEAN, c \in BOOLEAN, l \in BOOLEAN}

\* F0 values of pyworld: 0 (unvoiced) or a frequency
RawValues == {Q(0, 1), Q(MaxVal, 1)}
RawF0s == SeqsUpTo(RawValues, MaxRaw)

\* scipy's interp1d refuses fewer than 2 points in its older versions and
\* fewer than 1 in its newer ones
InterpMinvals == {1, 2}

NoDurations == [none |-> TRUE, rows |-> <<>>]

\* a padded batch of sample counts: the rows are as long as the longest
\* utterance, which comes first
InputLengths(B, N) == {il \in [1..B -> 0..N] : il[1] = N}

\* one row of a padded batch of durations, W tokens wide, with its token
\* count: the entries beyond the token count are zero
DurationRows(W) ==
    {<<d, n>> \in [1..W -> 0..MaxDur] \X (0..W) : \A k \in 1..W : k > n => d[k] = 0}

\* the batches of durations with their token counts, as wide as the longest
\* row has tokens, or none at all
DurationBatches(B) ==
    {<<NoDurations, <<>> >>} \cup
    UNION {
      {<<[none |-> FALSE, rows |-> [i \in 1..B |-> rs[i][1]]],
         [i \in 1..B |-> rs[i][2]]>> :
          rs \in {q \in [1..B -> DurationRows(W)] : \E i \in 1..B : q[i][2] = W}}
      : W \in 0..MaxTok}

-----------------------------------------------------------------------------
(* The extractor in use: forward(), get_parameters(), output_size() *)

Init ==
    /\ self \in Configs
    /\ pc = "idle"
    /\ call = [op |-> "__init__"]
    /\ frames = <<>>
    /\ pitch = <<>>
    /\ ret = NoCall

\* forward(input, input_lengths, durations, durations_lengths) is entered
Forward ==
    /\ pc = "idle"
    /\ \E B \in 1..MaxBatch, N \in 0..MaxSamples :
         \E il \in InputLengths(B, N), db \in DurationBatches(B) :
            /\ call' = [op |-> "forward", num_samples |-> N, input_lengths |-> il,
                        durations |-> db[1], durations_lengths |-> db[2]]
    /\ pc' = "calc"
    /\ frames' = <<>>
    /\ pitch' = <<>>
    /\ ret' = NoCall
    /\ UNCHANGED self

\* line 73, one row of `input`: pyworld's f0 for the row, then lines 92-98
CalculateF0Row ==
    /\ pc = "calc"
    /\ Len(pitch) < Len(call.input_lengths)
    /\ \E raw \in RawF0s, minval \in InterpMinvals :
         LET r == _calculate_f0(self, call.num_samples, raw, minval)
         IN  /\ frames' = Append(frames, _adjust_num_frames(self, call.num_samples, raw))
             /\ IF r.ok
                THEN /\ pitch' = Append(pitch, r.val)
                     /\ UNCHANGED <<pc, ret>>
                ELSE /\ pc' = "done"
                     /\ ret' = r
                     /\ UNCHANGED pitch
    /\ UNCHANGED <<self, call>>

\* lines 74-80 once every row is done
ForwardReturn ==
    /\ pc = "calc"
    /\ Len(pitch) = Len(call.input_lengths)
    /\ LET a == AverageAll(self, pitch, call.durations)
       IN  pitch' = IF a.ok THEN a.val ELSE pitch
    /\ ret' = forward(self, pitch, call.input_lengths, call.durations,
                          call.durations_lengths)
    /\ pc' = "done"
    /\ UNCHANGED <<self, call, frames>>

CallGetParameters ==
    /\ pc = "idle"
    /\ call' = [op |-> "get_parameters"]
    /\ ret' = get_parameters(self)
    /\ pc' = "done"
    /\ frames' = <<>>
    /\ pitch' = <<>>
    /\ UNCHANGED self

CallOutputSize ==
    /\ pc = "idle"
    /\ call' = [op |-> "output_size"]
    /\ ret' = output_size(self)
    /\ pc' = "done"
    /\ frames' = <<>>
    /\ pitch' = <<>>
    /\ UNCHANGED self

\* the caller has taken the outcome of its call and is free to call again
Resume ==
    /\ pc = "done"
    /\ pc' = "idle"
    /\ call' = [op |-> "__init__"]
    /\ frames' = <<>>
    /\ pitch' = <<>>
    /\ ret' = NoCall
    /\ UNCHANGED self

Next ==
    \/ Resume
    \/ Forward
    \/ CalculateF0Row
    \/ ForwardReturn
    \/ CallGetParameters
    \/ CallOutputSize

Spec == Init /\ [][Next]_vars

-----------------------------------------------------------------------------
(* The helper methods called on their own *)

FnValues == {Q(v, 1) : v \in (-1)..MaxVal}
FnF0s == SeqsUpTo(FnValues, MaxLenFn)
FnContours == SeqsUpTo(FnValues, MaxAvgLen)
FnDurations == SeqsUpTo(0..MaxDur, MaxTok)

CallAdjustNumFrames ==
    /\ pc = "idle"
    /\ \E N \in 0..MaxSamples, f0 \in FnF0s :
         /\ call' = [op |-> "_adjust_num_frames", num_samples |-> N, f0 |-> f0]
         /\ ret' = Returned(_adjust_num_frames(self, N, f0))
    /\ pc' = "done"
    /\ UNCHANGED <<self, frames, pitch>>

CallConvertToContinuousF0 ==
    /\ pc = "idle"
    /\ \E f0 \in FnF0s, minval \in InterpMinvals :
         /\ call' = [op |-> "_convert_to_continuous_f0", f0 |-> f0,
                     minval |-> minval, again |-> FALSE]
         /\ ret' = _convert_to_continuous_f0(f0, minval)
    /\ pc' = "done"
    /\ UNCHANGED <<self, frames, pitch>>

\* _convert_to_continuous_f0 called on the contour it has just returned
CallConvertAgain ==
    /\ pc = "done"
    /\ call.op = "_convert_to_continuous_f0"
    /\ ~call.again
    /\ ret.ok
    /\ call' = [call EXCEPT !.f0 = ret.val, !.again = TRUE]
    /\ ret' = _convert_to_continuous_f0(ret.val, call.minval)
    /\ UNCHANGED <<self, pc, frames, pitch>>

\* _calculate_f0 on a row of N samples for which pyworld returns raw
CallCalculateF0 ==
    /\ pc = "idle"
    /\ \E N \in 0..MaxSamples, raw \in FnF0s, minval \in InterpMinvals :
         /\ \A i \in 1..Len(raw) : raw[i].n >= 0
         /\ call' = [op |-> "_calculate_f0", num_samples |-> N, raw |-> raw]
         /\ frames' = <<_adjust_num_frames(self, N, raw)>>
         /\ ret' = _calculate_f0(self, N, raw, minval)
    /\ pc' = "done"
    /\ UNCHANGED <<self, pitch>>

CallAverageByDuration ==
    /\ pc = "idle"
    /\ \E x \in FnContours, d \in FnDurations :
         /\ call' = [op |-> "_average_by_duration", x |-> x, d |-> d]
         /\ ret' = _average_by_duration(x, d)
    /\ pc' = "done"
    /\ UNCHANGED <<self, frames, pitch>>

NextFn ==
    \/ Resume
    \/ CallAdjustNumFrames
    \/ CallConvertToContinuousF0
    \/ CallConvertAgain
    \/ CallCalculateF0
    \/ CallAverageByDuration

InitFn == Init /\ self.use_token_averaged_f0

SpecFn == InitFn /\ [][NextFn]_vars

-----------------------------------------------------------------------------
(* Properties *)

\* the frame count the pipeline expects of num_samples samples
ExpectedFrames(obj, num_samples) ==
    ((num_samples - (obj.n_fft \div 2)) \div obj.hop_length) + 1

ForwardDone == pc = "done" /\ call.op = "forward"
BatchSize == Len(call.input_lengths)
AllUnvoiced(f0) == \A i \in 1..Len(f0) : IsZero(f0[i])

\* C1: forward() without token averaging, on a batch of two or more utterances
\* of differing true sample counts (each long enough to have a frame):
\* the pitch batch is right-padded with 0.0 to the longest per-utterance frame
\* count and pitch_lengths[i] is the frame count of utterance i's own length.
C1_LengthsAreTrueLengths ==
    (/\ ForwardDone
     /\ ~self.use_token_averaged_f0
     /\ ret.ok
     /\ BatchSize >= 2
     /\ \E i, j \in 1..BatchSize : call.input_lengths[i] # call.input_lengths[j]
     /\ \A i \in 1..BatchSize : ExpectedFrames(self, call.input_lengths[i]) >= 1)
    => /\ \A i \in 1..BatchSize :
            ret.val.pitch_lengths[i] = ExpectedFrames(self, call.input_lengths[i])
       /\ \A i \in 1..BatchSize :
            /\ Len(ret.val.pitch[i]) =
                 ExpectedFrames(self, MaxOf({call.input_lengths[j] : j \in 1..BatchSize}))
            /\ \A k \in 1..Len(ret.val.pitch[i]) :
                 k > ExpectedFrames(self, call.input_lengths[i])
                    => ret.val.pitch[i][k] = Zero

\* C3: forward() without durations on an extractor built with
\* use_continuous_f0 and use_log_f0 and the other options at their defaults
\* (use_token_averaged_f0 = True), for one waveform of two or more frames with
\* a voiced one: the call returns a pitch sequence of the expected frame count
\* and that count as its valid length.
C3_NoDurationsReturnsFrames ==
    (/\ ForwardDone
     /\ call.durations.none
     /\ self.use_continuous_f0 /\ self.use_log_f0 /\ self.use_token_averaged_f0
     /\ BatchSize = 1
     /\ Len(frames) = 1
     /\ Len(frames[1]) >= 2
     /\ ~AllUnvoiced(frames[1]))
    => /\ ret.ok
       /\ Len(ret.val.pitch[1]) = ExpectedFrames(self, call.num_samples)
       /\ ret.val.pitch_lengths[1] = ExpectedFrames(self, call.num_samples)

\* C10: get_parameters() returns, without raising, the entries fs, n_fft,
\* n_shift, f0min and f0max with the values stored at construction.
C10_GetParametersReturns ==
    (pc = "done" /\ call.op = "get_parameters")
    => /\ ret.ok
       /\ ret.val = << <<"fs", self.fs>>, <<"n_fft", self.n_fft>>,
                       <<"n_shift", self.hop_length>>, <<"f0min", self.f0min>>,
                       <<"f0max", self.f0max>> >>

\* C5 as stated: with token averaging the sequence produced for utterance i is
\* durations_lengths[i] long and the returned lengths are durations_lengths;
\* without it the valid length of utterance i is its contour's length.
C5_Original ==
    (ForwardDone /\ ret.ok)
    => IF self.use_token_averaged_f0
       THEN /\ \A i \in 1..BatchSize : Len(pitch[i]) = call.durations_lengths[i]
            /\ ret.val.pitch_lengths = call.durations_lengths
       ELSE \A i \in 1..BatchSize : ret.val.pitch_lengths[i] = Len(frames[i])

\* C5, amended: with token averaging the sequence produced for utterance i is
\* as long as its row of the durations batch (the padded token count, which is
\* durations_lengths[i] only for a row that is not padded) and the returned
\* lengths are durations_lengths; without it the valid length of utterance i
\* is its contour's length.
C5_AveragedLengths ==
    (ForwardDone /\ ret.ok)
    => IF self.use_token_averaged_f0
       THEN /\ \A i \in 1..BatchSize : Len(pitch[i]) = Len(call.durations.rows[i])
            /\ ret.val.pitch_lengths = call.durations_lengths
       ELSE \A i \in 1..BatchSize : ret.val.pitch_lengths[i] = Len(frames[i])

C5_Witness ==
    /\ ForwardDone /\ ret.ok
    /\ self.use_token_averaged_f0
    /\ BatchSize = 2
    /\ call.durations_lengths[1] = 2
    /\ call.durations_lengths[2] = 1

\* C7: forward() is all-or-nothing.  A call that returns has processed every
\* utterance, none of them all unvoiced under use_continuous_f0 and none with
\* durations that do not sum to its frame count under use_token_averaged_f0,
\* and returns a row for each; a call that meets such an utterance raises and
\* returns no pitch batch and no lengths.
C7_AllOrNothing ==
    ForwardDone =>
      LET unvoiced == /\ self.use_continuous_f0
                      /\ \E i \in 1..Len(frames) : AllUnvoiced(frames[i])
          mismatch == /\ self.use_token_averaged_f0
                      /\ ~call.durations.none
                      /\ \E i \in 1..Len(frames) :
                           SumSeq(call.durations.rows[i]) # Len(frames[i])
      IN  /\ ret.ok => /\ Len(frames) = BatchSize
                       /\ ~unvoiced
                       /\ ~mismatch
                       /\ Len(ret.val.pitch) = BatchSize
                       /\ Len(ret.val.pitch_lengths) = BatchSize
          /\ (unvoiced \/ (mismatch /\ Len(frames) = BatchSize))
                => /\ ~ret.ok
                   /\ ret.val = <<>>

C7_Witness ==
    /\ ForwardDone
    /\ BatchSize = 2
    /\ Len(frames) = 2
    /\ self.use_token_averaged_f0 /\ ~self.use_continuous_f0
    /\ ~call.durations.none
    /\ SumSeq(call.durations.rows[1]) = Len(frames[1])
    /\ Len(frames[1]) > 0 /\ ~AllUnvoiced(frames[1])
    /\ SumSeq(call.durations.rows[2]) # Len(frames[2])
    /\ ~ret.ok
    /\ ret.val = <<>>

FnDone(op) == pc = "done" /\ call.op = op

\* C2 as stated: for every waveform length the corrected f0 is exactly
\* expected = samples_to_frames(N, hop_length, n_fft) + 1 long: f0 followed by
\* zeros, the first expected values of f0, or f0 itself.
C2_Original ==
    FnDone("_adjust_num_frames") =>
      LET expected == ExpectedFrames(self, call.num_samples)
          f0 == call.f0
          out == ret.val
      IN  /\ Len(out) = expected
          /\ expected > Len(f0) =>
                /\ \A i \in 1..Len(f0) : out[i] = f0[i]
                /\ \A i \in (Len(f0) + 1)..expected : out[i] = Zero
          /\ expected < Len(f0) => \A i \in 1..expected : out[i] = f0[i]
          /\ expected = Len(f0) => out = f0

\* C2, amended: the same whenever expected >= 0 (a sequence cannot be shorter
\* than empty; a negative expected cuts -expected frames off the end of f0).
C2_AdjustNumFrames ==
    (FnDone("_adjust_num_frames") /\ ExpectedFrames(self, call.num_samples) >= 0) =>
      LET expected == ExpectedFrames(self, call.num_samples)
          f0 == call.f0
          out == ret.val
      IN  /\ Len(out) = expected
          /\ expected > Len(f0) =>
                /\ \A i \in 1..Len(f0) : out[i] = f0[i]
                /\ \A i \in (Len(f0) + 1)..expected : out[i] = Zero
          /\ expected < Len(f0) => \A i \in 1..expected : out[i] = f0[i]
          /\ expected = Len(f0) => out = f0

C2_Witness ==
    /\ FnDone("_adjust_num_frames")
    /\ ExpectedFrames(self, call.num_samples) = 2
    /\ Len(call.f0) = 3
    /\ Len(ret.val) = 2

\* the frames of token k: those after the first k-1 durations and within the
\* first k
RunFrames(d, k) ==
    {i \in 1..SumSeq(d) : SumSeq(SubSeq(d, 1, k - 1)) < i /\ i <= SumSeq(SubSeq(d, 1, k))}

RECURSIVE SumOfFrames(_, _)
SumOfFrames(x, S) ==
    IF S = {} THEN Zero
    ELSE LET i == CHOOSE j \in S : TRUE
         IN  RAdd(x[i], SumOfFrames(x, S \ {i}))

\* C4: for a contour x and durations d with sum(d) = len(x), token k of the
\* result is 0.0 when its run of frames has no non-zero entry and otherwise
\* the arithmetic mean of the run's non-zero entries; the runs are contiguous,
\* in order, and cover every frame exactly once.
C4_AverageByDuration ==
    (/\ FnDone("_average_by_duration")
     /\ SumSeq(call.d) = Len(call.x)
     /\ Len(call.d) > 0) =>
      LET x == call.x
          d == call.d
      IN  /\ ret.ok
          /\ Len(ret.val) = Len(d)
          /\ \A i \in 1..Len(x) : Cardinality({k \in 1..Len(d) : i \in RunFrames(d, k)}) = 1
          /\ \A k \in 1..Len(d) :
                /\ Cardinality(RunFrames(d, k)) = d[k]
                /\ \A i \in RunFrames(d, k), j \in 1..Len(x) :
                      (k < Len(d) /\ j \in RunFrames(d, k + 1)) => i < j
                /\ LET nz == {i \in RunFrames(d, k) : NonZero(x[i])}
                   IN  IF nz = {} THEN ret.val[k] = Zero
                       ELSE /\ ret.val[k].t = "q"
                            /\ RScale(ret.val[k], Cardinality(nz), 1) = SumOfFrames(x, nz)

C4_Witness ==
    /\ FnDone("_average_by_duration")
    /\ ret.ok
    /\ Len(call.d) = 2
    /\ call.d[1] = 0
    /\ call.d[2] = 2
    /\ \E i, j \in RunFrames(call.d, 2) : IsZero(call.x[i]) /\ NonZero(call.x[j])

\* C6: _convert_to_continuous_f0 raises an assertion failure on a sequence
\* whose frames are all zero (the empty one included); on a sequence of
\* non-negative values with a voiced frame no element of its result is zero,
\* and it returns when the sequence has two or more frames.
C6_Continuous ==
    (FnDone("_convert_to_continuous_f0") /\ ~call.again) =>
      LET f0 == call.f0
      IN  /\ AllUnvoiced(f0) => ret = Raised("AssertionError")
          /\ (~AllUnvoiced(f0) /\ \A i \in 1..Len(f0) : f0[i].n >= 0) =>
                /\ Len(f0) >= 2 => ret.ok
                /\ ret.ok => /\ Len(ret.val) = Len(f0)
                             /\ \A i \in 1..Len(f0) : NonZero(ret.val[i])

C6_Witness ==
    /\ FnDone("_convert_to_continuous_f0") /\ ~call.again
    /\ ret.ok
    /\ Len(call.f0) = 4
    /\ IsZero(call.f0[1]) /\ NonZero(call.f0[2]) /\ IsZero(call.f0[3]) /\ NonZero(call.f0[4])
    /\ \A i \in 1..4 : call.f0[i].n >= 0 /\ NonZero(ret.val[i])

\* C8: _convert_to_continuous_f0 applied to its own result returns that result,
\* element by element.
C8_Idempotent ==
    (FnDone("_convert_to_continuous_f0") /\ call.again) =>
      /\ ret.ok
      /\ Len(ret.val) = Len(call.f0)
      /\ \A i \in 1..Len(call.f0) : ret.val[i] = call.f0[i]

C8_Witness ==
    /\ FnDone("_convert_to_continuous_f0") /\ call.again
    /\ ret.ok
    /\ \E i \in 1..Len(call.f0) : call.f0[i].d # 1

\* the natural logarithm of a positive rational
LnOf(v) == IF v.n = v.d THEN Zero ELSE [t |-> "ln", n |-> v.n, d |-> v.d, r |-> 1]

\* C9: with use_continuous_f0 disabled, _calculate_f0 returns a frame for every
\* frame of the corrected f0, in place: a zero frame is zero whether or not
\* use_log_f0 is set, a positive frame x is ln(x) with use_log_f0 and x
\* without.
C9_LogKeepsZeros ==
    (FnDone("_calculate_f0") /\ ~self.use_continuous_f0) =>
      LET f0 == frames[1]
      IN  /\ ret.ok
          /\ Len(ret.val) = Len(f0)
          /\ \A i \in 1..Len(f0) :
                /\ IsZero(f0[i]) => ret.val[i] = Zero
                /\ f0[i].n > 0 =>
                     ret.val[i] = IF self.use_log_f0 THEN LnOf(f0[i]) ELSE f0[i]

C9_Witness ==
    /\ FnDone("_calculate_f0") /\ ~self.use_continuous_f0 /\ self.use_log_f0
    /\ ret.ok
    /\ Len(frames[1]) = 3
    /\ IsZero(frames[1][1]) /\ frames[1][2].n > 1 /\ IsZero(frames[1][3])
    /\ ret.val[1] = Zero /\ ret.val[2].t = "ln" /\ ret.val[3] = Zero

=============================================================================
